------------------------------ MODULE Spec2Model ------------------------------
(***************************************************************************)
(* Model of scripts/check_partl.py, the discovery-mode monitor: per site   *)
(* it fetches the seed page, ranks the anchors, follows the candidates to  *)
(* a PDF, fetches the PDF and classifies the change against the stored     *)
(* registry entry, then saves the registry.                                *)
(*                                                                         *)
(* Strings the code inspects (lower(), `in`, endswith, regular             *)
(* expressions, slicing) are sequences of one-character strings, so that   *)
(* these operations are computed as the code computes them.  Labels the    *)
(* code only stores (track titles) are plain strings.  Python's None is    *)
(* the empty sequence; both are falsy in the code's tests.                 *)
(***************************************************************************)
EXTENDS Integers, Sequences, FiniteSets, TLC

None == <<>>

\* String literals of check_partl.py, each with its line there.
\* Jurisdiction identifiers (SITES, INCLUDE, EXCLUDE keys)
s_england ==  \* 'england', line 35
  <<"e","n","g","l","a","n","d">>
s_wales ==  \* 'wales', line 39
  <<"w","a","l","e","s">>
s_scotland ==  \* 'scotland', line 43
  <<"s","c","o","t","l","a","n","d">>
s_northern_ireland ==  \* 'northern_ireland', line 47
  <<"n","o","r","t","h","e","r","n","_","i","r","e","l","a","n","d">>
s_ireland ==  \* 'ireland', line 51
  <<"i","r","e","l","a","n","d">>

\* Seed collection pages of SITES
s_coll_england ==  \* 'https://www.gov.uk/government/collections/approved-documents', line 36
  <<"h","t","t","p","s",":","/","/","w","w","w",".","g","o","v",".","u","k","/","g","o","v","e","r","n","m","e","n","t","/","c","o","l","l","e","c","t","i","o","n","s","/","a","p","p","r","o","v","e","d","-","d","o","c","u","m","e","n","t","s">>
s_coll_wales ==  \* 'https://www.gov.wales/building-regulations-approved-documents', line 40
  <<"h","t","t","p","s",":","/","/","w","w","w",".","g","o","v",".","w","a","l","e","s","/","b","u","i","l","d","i","n","g","-","r","e","g","u","l","a","t","i","o","n","s","-","a","p","p","r","o","v","e","d","-","d","o","c","u","m","e","n","t","s">>
s_coll_scotland ==  \* 'https://www.gov.scot/collections/building-standards/', line 44
  <<"h","t","t","p","s",":","/","/","w","w","w",".","g","o","v",".","s","c","o","t","/","c","o","l","l","e","c","t","i","o","n","s","/","b","u","i","l","d","i","n","g","-","s","t","a","n","d","a","r","d","s","/">>
s_coll_northern_ireland ==  \* 'https://www.finance-ni.gov.uk/topics/building-regulations/technical-booklets', line 48
  <<"h","t","t","p","s",":","/","/","w","w","w",".","f","i","n","a","n","c","e","-","n","i",".","g","o","v",".","u","k","/","t","o","p","i","c","s","/","b","u","i","l","d","i","n","g","-","r","e","g","u","l","a","t","i","o","n","s","/","t","e","c","h","n","i","c","a","l","-","b","o","o","k","l","e","t","s">>
s_coll_ireland ==  \* 'https://www.gov.ie/en/publication/07b29-technical-guidance-document-l-conservation-of-fuel-and-energy-dwellings/', line 52
  <<"h","t","t","p","s",":","/","/","w","w","w",".","g","o","v",".","i","e","/","e","n","/","p","u","b","l","i","c","a","t","i","o","n","/","0","7","b","2","9","-","t","e","c","h","n","i","c","a","l","-","g","u","i","d","a","n","c","e","-","d","o","c","u","m","e","n","t","-","l","-","c","o","n","s","e","r","v","a","t","i","o","n","-","o","f","-","f","u","e","l","-","a","n","d","-","e","n","e","r","g","y","-","d","w","e","l","l","i","n","g","s","/">>

\* Tokens of INCLUDE and EXCLUDE
s_approved_document_l ==  \* 'approved document l', line 96
  <<"a","p","p","r","o","v","e","d"," ","d","o","c","u","m","e","n","t"," ","l">>
s_part_l ==  \* 'part l', line 96
  <<"p","a","r","t"," ","l">>
s_conservation_of_fuel ==  \* 'conservation of fuel', line 96
  <<"c","o","n","s","e","r","v","a","t","i","o","n"," ","o","f"," ","f","u","e","l">>
s_technical_handbook ==  \* 'technical handbook', line 98
  <<"t","e","c","h","n","i","c","a","l"," ","h","a","n","d","b","o","o","k">>
s_section_6 ==  \* 'section 6', line 98
  <<"s","e","c","t","i","o","n"," ","6">>
s_energy ==  \* 'energy', line 98
  <<"e","n","e","r","g","y">>
s_technical_booklet_f ==  \* 'technical booklet f', line 99
  <<"t","e","c","h","n","i","c","a","l"," ","b","o","o","k","l","e","t"," ","f">>
s_technical_guidance_document_l ==  \* 'technical guidance document l', line 100
  <<"t","e","c","h","n","i","c","a","l"," ","g","u","i","d","a","n","c","e"," ","d","o","c","u","m","e","n","t"," ","l">>
s_tgd_l ==  \* 'tgd l', line 100
  <<"t","g","d"," ","l">>
s_dwellings ==  \* 'dwellings', line 100
  <<"d","w","e","l","l","i","n","g","s">>
s_non_domestic ==  \* 'non-domestic', line 107
  <<"n","o","n","-","d","o","m","e","s","t","i","c">>

\* Literals of score_for, fetch, the main loop and classify_track
s_dot_pdf ==  \* '.pdf', line 120
  <<".","p","d","f">>
s_dot_pdf_q ==  \* '.pdf?', line 120
  <<".","p","d","f","?">>
s_download ==  \* 'download', line 120
  <<"d","o","w","n","l","o","a","d">>
s_http ==  \* 'http://', line 69
  <<"h","t","t","p",":","/","/">>
s_https ==  \* 'https://', line 69
  <<"h","t","t","p","s",":","/","/">>
s_volume_1 ==  \* 'volume 1', line 132
  <<"v","o","l","u","m","e"," ","1">>
s_volume_1h ==  \* 'volume-1', line 132
  <<"v","o","l","u","m","e","-","1">>
s_domestic ==  \* 'domestic', line 132
  <<"d","o","m","e","s","t","i","c">>
s_volume_2 ==  \* 'volume 2', line 134
  <<"v","o","l","u","m","e"," ","2">>
s_volume_2h ==  \* 'volume-2', line 134
  <<"v","o","l","u","m","e","-","2">>
s_buildings_other ==  \* 'buildings other than dwellings', line 134
  <<"b","u","i","l","d","i","n","g","s"," ","o","t","h","e","r"," ","t","h","a","n"," ","d","w","e","l","l","i","n","g","s">>
s_amendment ==  \* 'amendment', line 136
  <<"a","m","e","n","d","m","e","n","t">>
s_amendments ==  \* 'amendments', line 136
  <<"a","m","e","n","d","m","e","n","t","s">>
s_booklet_f2 ==  \* 'booklet f2', line 146
  <<"b","o","o","k","l","e","t"," ","f","2">>
s_f2 ==  \* 'f2', line 146
  <<"f","2">>
s_slash_f2 ==  \* '/f2', line 146
  <<"/","f","2">>

\* Track identifiers returned by classify_track
s_vol1_dwellings ==  \* 'vol1-dwellings', line 133
  <<"v","o","l","1","-","d","w","e","l","l","i","n","g","s">>
s_vol2_non_domestic ==  \* 'vol2-non-domestic', line 135
  <<"v","o","l","2","-","n","o","n","-","d","o","m","e","s","t","i","c">>
s_part_l_id ==  \* 'part-l', line 138
  <<"p","a","r","t","-","l">>
s_f2_non_domestic ==  \* 'f2-non-domestic', line 147
  <<"f","2","-","n","o","n","-","d","o","m","e","s","t","i","c">>
s_f1_dwellings ==  \* 'f1-dwellings', line 148
  <<"f","1","-","d","w","e","l","l","i","n","g","s">>
s_general ==  \* 'general', line 153
  <<"g","e","n","e","r","a","l">>

\* The initial rule_version, the checksum prefix
s_v1_0_0 ==  \* 'v1.0.0', line 432
  <<"v","1",".","0",".","0">>
s_sha256_prefix ==  \* 'sha256:', line 394
  <<"s","h","a","2","5","6",":">>

\* Anchor texts and hrefs of the upstream pages
t_vol1 ==  \* 'Approved Document L Volume 1'
  <<"A","p","p","r","o","v","e","d"," ","D","o","c","u","m","e","n","t"," ","L"," ","V","o","l","u","m","e"," ","1">>
h_doc1 ==  \* '/doc1.pdf'
  <<"/","d","o","c","1",".","p","d","f">>
t_vol2 ==  \* 'Approved Document L Volume 2'
  <<"A","p","p","r","o","v","e","d"," ","D","o","c","u","m","e","n","t"," ","L"," ","V","o","l","u","m","e"," ","2">>
h_doc2 ==  \* '/doc2.pdf'
  <<"/","d","o","c","2",".","p","d","f">>
t_contact ==  \* 'Contact us'
  <<"C","o","n","t","a","c","t"," ","u","s">>
h_contact ==  \* '/contact'
  <<"/","c","o","n","t","a","c","t">>
t_booklet_f1 ==  \* 'Technical Booklet F1'
  <<"T","e","c","h","n","i","c","a","l"," ","B","o","o","k","l","e","t"," ","F","1">>
h_f1 ==  \* '/f1.pdf'
  <<"/","f","1",".","p","d","f">>
t_tgd_dwellings ==  \* 'TGD L Dwellings'
  <<"T","G","D"," ","L"," ","D","w","e","l","l","i","n","g","s">>
h_tgd_l ==  \* '/tgd-l'
  <<"/","t","g","d","-","l">>
t_guide ==  \* 'Part L guide'
  <<"P","a","r","t"," ","L"," ","g","u","i","d","e">>
h_foreign ==  \* 'https://example.org/part-l'
  <<"h","t","t","p","s",":","/","/","e","x","a","m","p","l","e",".","o","r","g","/","p","a","r","t","-","l">>
t_tgd_non_domestic ==  \* 'TGD L Non-domestic'
  <<"T","G","D"," ","L"," ","N","o","n","-","d","o","m","e","s","t","i","c">>
h_nd ==  \* '/nd.pdf'
  <<"/","n","d",".","p","d","f">>
t_download ==  \* 'Download'
  <<"D","o","w","n","l","o","a","d">>
h_download ==  \* '/download/tgd-l'
  <<"/","d","o","w","n","l","o","a","d","/","t","g","d","-","l">>
t_adl ==  \* 'Approved Document L (Part L): conservation of fuel and power'
  <<"A","p","p","r","o","v","e","d"," ","D","o","c","u","m","e","n","t"," ","L"," ","(","P","a","r","t"," ","L",")",":"," ","c","o","n","s","e","r","v","a","t","i","o","n"," ","o","f"," ","f","u","e","l"," ","a","n","d"," ","p","o","w","e","r">>
h_adl ==  \* '/adl'
  <<"/","a","d","l">>
t_part_l_2022 ==  \* 'Part L 2022'
  <<"P","a","r","t"," ","L"," ","2","0","2","2">>
h_part_l_pdf ==  \* '/part-l.pdf'
  <<"/","p","a","r","t","-","l",".","p","d","f">>
h_adl_a ==  \* '/adl-a.pdf'
  <<"/","a","d","l","-","a",".","p","d","f">>
h_adl_b ==  \* '/adl-b.pdf'
  <<"/","a","d","l","-","b",".","p","d","f">>
t_part_l ==  \* 'Part L'
  <<"P","a","r","t"," ","L">>
t_part_l_fuel ==  \* 'Part L: conservation of fuel'
  <<"P","a","r","t"," ","L",":"," ","c","o","n","s","e","r","v","a","t","i","o","n"," ","o","f"," ","f","u","e","l">>
t_section_6 ==  \* 'Technical Handbook: Section 6'
  <<"T","e","c","h","n","i","c","a","l"," ","H","a","n","d","b","o","o","k",":"," ","S","e","c","t","i","o","n"," ","6">>
h_s6 ==  \* '/s6.pdf'
  <<"/","s","6",".","p","d","f">>

\* URLs the upstream answers, the redirect target, a page's date, a PDF's text
u_doc1 ==  \* 'https://www.gov.uk/doc1.pdf'
  <<"h","t","t","p","s",":","/","/","w","w","w",".","g","o","v",".","u","k","/","d","o","c","1",".","p","d","f">>
u_doc2 ==  \* 'https://www.gov.uk/doc2.pdf'
  <<"h","t","t","p","s",":","/","/","w","w","w",".","g","o","v",".","u","k","/","d","o","c","2",".","p","d","f">>
u_f1 ==  \* 'https://www.finance-ni.gov.uk/f1.pdf'
  <<"h","t","t","p","s",":","/","/","w","w","w",".","f","i","n","a","n","c","e","-","n","i",".","g","o","v",".","u","k","/","f","1",".","p","d","f">>
u_tgd_l ==  \* 'https://www.gov.ie/tgd-l'
  <<"h","t","t","p","s",":","/","/","w","w","w",".","g","o","v",".","i","e","/","t","g","d","-","l">>
u_foreign ==  \* 'https://example.org/part-l'
  <<"h","t","t","p","s",":","/","/","e","x","a","m","p","l","e",".","o","r","g","/","p","a","r","t","-","l">>
u_nd ==  \* 'https://www.gov.ie/nd.pdf'
  <<"h","t","t","p","s",":","/","/","w","w","w",".","g","o","v",".","i","e","/","n","d",".","p","d","f">>
u_download ==  \* 'https://www.gov.ie/download/tgd-l'
  <<"h","t","t","p","s",":","/","/","w","w","w",".","g","o","v",".","i","e","/","d","o","w","n","l","o","a","d","/","t","g","d","-","l">>
u_assets ==  \* 'https://assets.gov.ie/tgd-l.pdf'
  <<"h","t","t","p","s",":","/","/","a","s","s","e","t","s",".","g","o","v",".","i","e","/","t","g","d","-","l",".","p","d","f">>
u_adl ==  \* 'https://www.gov.wales/adl'
  <<"h","t","t","p","s",":","/","/","w","w","w",".","g","o","v",".","w","a","l","e","s","/","a","d","l">>
u_p4 ==  \* 'https://www.gov.wales/p4'
  <<"h","t","t","p","s",":","/","/","w","w","w",".","g","o","v",".","w","a","l","e","s","/","p","4">>
u_adl_a ==  \* 'https://www.gov.wales/adl-a.pdf'
  <<"h","t","t","p","s",":","/","/","w","w","w",".","g","o","v",".","w","a","l","e","s","/","a","d","l","-","a",".","p","d","f">>
d_2022 ==  \* '2022-05-01'
  <<"2","0","2","2","-","0","5","-","0","1">>
x_intro ==  \* 'Part L'
  <<"P","a","r","t"," ","L">>
x_values ==  \* 'Roof 0.18 / Wall 0.26'
  <<"R","o","o","f"," ","0",".","1","8","\n","W","a","l","l"," ","0",".","2","6">>

(***************************************************************************)
(* String operations                                                       *)
(***************************************************************************)
UpperChars ==
  <<"A","B","C","D","E","F","G","H","I","J","K","L","M",
    "N","O","P","Q","R","S","T","U","V","W","X","Y","Z">>
LowerChars ==
  <<"a","b","c","d","e","f","g","h","i","j","k","l","m",
    "n","o","p","q","r","s","t","u","v","w","x","y","z">>
DigitChars == <<"0","1","2","3","4","5","6","7","8","9">>

\* The characters of the model's strings in code-point order (str comparison).
Alphabet ==
  <<"\n"," ","-",".","/">> \o DigitChars \o <<":","?">> \o UpperChars
    \o <<"_">> \o LowerChars

Ord(c) == CHOOSE i \in 1..Len(Alphabet) : Alphabet[i] = c

IsUpper(c) == \E i \in 1..26 : UpperChars[i] = c
IsLower(c) == \E i \in 1..26 : LowerChars[i] = c
IsDigit(c) == \E i \in 1..10 : DigitChars[i] = c
DigitVal(c) == (CHOOSE i \in 1..10 : DigitChars[i] = c) - 1
IsWordChar(c) == IsUpper(c) \/ IsLower(c) \/ IsDigit(c) \/ c = "_"

LowerChar(c) ==
  IF IsUpper(c) THEN LowerChars[CHOOSE i \in 1..26 : UpperChars[i] = c] ELSE c

\* str.lower()
RECURSIVE lower(_)
lower(s) == IF s = <<>> THEN <<>> ELSE <<LowerChar(Head(s))>> \o lower(Tail(s))

\* s[i-1:] and s[:n] with 1-based positions
From(s, i) == SubSeq(s, i, Len(s))
Upto(s, n) == SubSeq(s, 1, n)

\* s.startswith(p), s.endswith(p)
StartsWith(s, p) == Len(p) <= Len(s) /\ SubSeq(s, 1, Len(p)) = p
EndsWith(s, p) == Len(p) <= Len(s) /\ SubSeq(s, Len(s) - Len(p) + 1, Len(s)) = p

\* whether w occurs in t at position i
OccursAt(t, w, i) == i >= 1 /\ i + Len(w) - 1 <= Len(t) /\ SubSeq(t, i, i + Len(w) - 1) = w

\* `w in t`
Contains(t, w) == \E i \in 1..(Len(t) + 1) : OccursAt(t, w, i)

\* position of the first occurrence of w in t at or after i, 0 when none (str.find)
Find(t, w, i) ==
  IF \E k \in i..(Len(t) + 1) : OccursAt(t, w, k)
  THEN CHOOSE k \in i..(Len(t) + 1) :
         OccursAt(t, w, k) /\ \A m \in i..(k - 1) : ~OccursAt(t, w, m)
  ELSE 0

\* str comparison a < b, by code points
RECURSIVE StrLess(_, _)
StrLess(a, b) ==
  IF b = <<>> THEN FALSE
  ELSE IF a = <<>> THEN TRUE
  ELSE IF Head(a) = Head(b) THEN StrLess(Tail(a), Tail(b))
  ELSE Ord(Head(a)) < Ord(Head(b))

\* str.split(sep) for a one-character separator
RECURSIVE Split(_, _)
Split(s, sep) ==
  LET k == Find(s, <<sep>>, 1)
  IN  IF k = 0 THEN <<s>> ELSE <<Upto(s, k - 1)>> \o Split(From(s, k + 1), sep)

\* int(x) for a string of decimal digits; str(n) for n >= 0
RECURSIVE ParseInt(_)
ParseInt(d) ==
  IF Len(d) = 1 THEN DigitVal(d[1])
  ELSE 10 * ParseInt(Upto(d, Len(d) - 1)) + DigitVal(d[Len(d)])

RECURSIVE IntToStr(_)
IntToStr(n) ==
  IF n < 10 THEN <<DigitChars[n + 1]>>
  ELSE IntToStr(n \div 10) \o <<DigitChars[(n % 10) + 1]>>

\* whether int(x) raises ValueError
IsInt(d) == d # <<>> /\ \A i \in 1..Len(d) : IsDigit(d[i])

(***************************************************************************)
(* State                                                                   *)
(***************************************************************************)
VARIABLES
  rules,      \* which INCLUDE/EXCLUDE tables are in force
  upstream,   \* which upstream the runs are against
  pc,         \* position of the script: "idle", "seed", "cand", "pdf", "save", "done", "crashed"
  run,        \* number of runs started
  today,      \* datetime.date.today() of the current run, as a day number
  registry,   \* the in-memory registry list of the current run
  changed,    \* the run's list of (slug, kind)
  si,         \* index into SITES of the site being processed
  cands,      \* detail_candidates(...) of the current site
  ci,         \* index into cands of the candidate being visited
  loc,        \* the main loop's working variables (pdf_url, picked track, issued, ...)
  disk,       \* the files: registry/current.json, archive/, texts/, diffs/, CHANGELOG.md
  visited,    \* per site of the current run, the hop pages fetched (observation)
  seen,       \* per site of the current run, what was resolved (observation)
  prevSeen,   \* seen of the previous completed run
  startDisk,  \* disk as the current run found it
  probe       \* state of the fetch loop and of the version bump when run on their own

vars ==
  <<rules, upstream, pc, run, today, registry, changed, si, cands, ci, loc, disk,
    visited, seen, prevSeen, startDisk, probe>>

(***************************************************************************)
(* Heuristics                                                              *)
(***************************************************************************)
Jurisdictions == {s_england, s_wales, s_scotland, s_northern_ireland, s_ireland}

SITES ==
  << [jurisdiction |-> s_england,          collection |-> s_coll_england],
     [jurisdiction |-> s_wales,            collection |-> s_coll_wales],
     [jurisdiction |-> s_scotland,         collection |-> s_coll_scotland],
     [jurisdiction |-> s_northern_ireland, collection |-> s_coll_northern_ireland],
     [jurisdiction |-> s_ireland,          collection |-> s_coll_ireland] >>

IncludeTable ==
  [j \in Jurisdictions |->
     CASE j = s_england -> <<s_approved_document_l, s_part_l, s_conservation_of_fuel>>
       [] j = s_wales -> <<s_approved_document_l, s_part_l, s_conservation_of_fuel>>
       [] j = s_scotland -> <<s_technical_handbook, s_section_6, s_energy>>
       [] j = s_northern_ireland -> <<s_technical_booklet_f, s_conservation_of_fuel>>
       [] j = s_ireland -> <<s_technical_guidance_document_l, s_tgd_l, s_part_l, s_dwellings>>]

ExcludeTable ==
  [j \in Jurisdictions |-> IF j = s_ireland THEN <<s_non_domestic>> ELSE <<>>]

\* The tables with england's rule replaced by the rule of the concrete scenario:
\* includes ["approved document l", "volume 1"], excludes ["volume 2"].
ScenarioInclude ==
  [IncludeTable EXCEPT ![s_england] = <<s_approved_document_l, s_volume_1>>]
ScenarioExclude ==
  [ExcludeTable EXCEPT ![s_england] = <<s_volume_2>>]

INCLUDE == IF rules = "scenario" THEN ScenarioInclude ELSE IncludeTable
EXCLUDE == IF rules = "scenario" THEN ScenarioExclude ELSE ExcludeTable

\* dict.get(jurisdiction, [])
TableGet(table, j) == IF j \in DOMAIN table THEN table[j] ELSE <<>>

\* number of tokens w of ws with `w in t or w in h`
RECURSIVE Hits(_, _, _)
Hits(ws, t, h) ==
  IF ws = <<>> THEN 0
  ELSE (IF Contains(t, Head(ws)) \/ Contains(h, Head(ws)) THEN 1 ELSE 0)
         + Hits(Tail(ws), t, h)

IncludeWeight == 2
ExcludeWeight == 3
PdfBonus == 3

LooksLikePdf(h) ==
  EndsWith(h, s_dot_pdf) \/ Contains(h, s_dot_pdf_q) \/ Contains(h, s_download)

score_for(jurisdiction, text, href) ==
  LET t == lower(text)
      h == lower(href)
  IN  IncludeWeight * Hits(TableGet(INCLUDE, jurisdiction), t, h)
        - ExcludeWeight * Hits(TableGet(EXCLUDE, jurisdiction), t, h)
        + (IF LooksLikePdf(h) THEN PdfBonus ELSE 0)

\* re.search(r"\bf2\b", tt)
HasWordF2(tt) ==
  \E i \in 1..Len(tt) :
    /\ OccursAt(tt, s_f2, i)
    /\ (i = 1 \/ ~IsWordChar(tt[i - 1]))
    /\ (i + 2 > Len(tt) \/ ~IsWordChar(tt[i + 2]))

classify_track(j, text, href) ==
  LET tt == lower(text)
      hh == lower(href)
  IN  CASE j \in {s_england, s_wales} ->
             IF Contains(tt, s_volume_1) \/ Contains(hh, s_volume_1h)
                  \/ Contains(tt, s_dwellings) \/ Contains(tt, s_domestic)
             THEN <<s_vol1_dwellings, "Volume 1 -- Dwellings">>
             ELSE IF Contains(tt, s_volume_2) \/ Contains(hh, s_volume_2h)
                       \/ Contains(tt, s_non_domestic) \/ Contains(tt, s_buildings_other)
             THEN <<s_vol2_non_domestic, "Volume 2 -- Buildings other than dwellings">>
             ELSE IF Contains(tt, s_amendment) \/ Contains(tt, s_amendments)
             THEN <<s_amendments, "Amendments">>
             ELSE <<s_part_l_id, "Part L">>
        [] j = s_scotland ->
             IF Contains(tt, s_non_domestic)
             THEN <<s_non_domestic, "Non-domestic Handbook -- Section 6">>
             ELSE <<s_domestic, "Domestic Handbook -- Section 6">>
        [] j = s_northern_ireland ->
             IF Contains(tt, s_booklet_f2) \/ HasWordF2(tt) \/ Contains(hh, s_slash_f2)
             THEN <<s_f2_non_domestic, "Technical Booklet F2 -- Non-domestic">>
             ELSE <<s_f1_dwellings, "Technical Booklet F1 -- Dwellings">>
        [] j = s_ireland -> <<s_dwellings, "TGD L -- Dwellings">>
        [] OTHER -> <<s_general, "Energy efficiency">>

(***************************************************************************)
(* URLs.  urljoin(base, href) for the hrefs of the model: an absolute      *)
(* http(s) URL, a path from the root ("/x"), or a path relative to the     *)
(* base's directory.                                                       *)
(***************************************************************************)
IsAbsolute(u) == StartsWith(u, s_http) \/ StartsWith(u, s_https)

\* the position of the "/" that ends "scheme://host", or Len+1 when the URL has no path
HostEnd(u) ==
  LET a == Find(u, <<":","/","/">>, 1)
      p == Find(u, <<"/">>, a + 3)
  IN  IF p = 0 THEN Len(u) + 1 ELSE p

Origin(u) == Upto(u, HostEnd(u) - 1)
Domain(u) == SubSeq(u, Find(u, <<":","/","/">>, 1) + 3, HostEnd(u) - 1)

LastSlash(u) == CHOOSE k \in 1..Len(u) : u[k] = "/" /\ \A m \in (k + 1)..Len(u) : u[m] # "/"

urljoin(base, href) ==
  IF IsAbsolute(href) THEN href
  ELSE IF StartsWith(href, <<"/">>) THEN Origin(base) \o href
  ELSE IF HostEnd(base) > Len(base) THEN base \o <<"/">> \o href
  ELSE Upto(base, LastSlash(base)) \o href

(***************************************************************************)
(* Pages.  A fetched HTML page is what the code reads of it: its anchors   *)
(* with an href, in document order (soup(...).find_all("a", href=True)),   *)
(* and the issue date extract_issued finds in it ("" when none).           *)
(***************************************************************************)
MaxCandidates == 12

\* the anchors with a positive score, as (score, absolute URL, text)
RECURSIVE Scored(_, _, _)
Scored(anchors, base, j) ==
  IF anchors = <<>> THEN <<>>
  ELSE LET a == Head(anchors)
           sc == score_for(j, a.text, a.href)
       IN  (IF sc > 0 THEN <<[sc |-> sc, u |-> urljoin(base, a.href), t |-> a.text]>>
            ELSE <<>>)
             \o Scored(Tail(anchors), base, j)

\* sorted(cand, key=lambda x: -x[0]): a stable sort, descending by score
RECURSIVE InsertByScore(_, _)
InsertByScore(sorted, c) ==
  IF sorted = <<>> THEN <<c>>
  ELSE IF Head(sorted).sc >= c.sc THEN <<Head(sorted)>> \o InsertByScore(Tail(sorted), c)
  ELSE <<c>> \o sorted

RECURSIVE SortByScore(_)
SortByScore(cand) ==
  IF cand = <<>> THEN <<>>
  ELSE InsertByScore(SortByScore(Upto(cand, Len(cand) - 1)), cand[Len(cand)])

\* the de-duplication loop: the first occurrence of each URL is kept
RECURSIVE Dedup(_, _)
Dedup(cand, seenUrls) ==
  IF cand = <<>> THEN <<>>
  ELSE IF Head(cand).u \in seenUrls THEN Dedup(Tail(cand), seenUrls)
  ELSE <<[u |-> Head(cand).u, t |-> Head(cand).t]>>
         \o Dedup(Tail(cand), seenUrls \cup {Head(cand).u})

\* Faulty candidates, left in the order of the page
detail_candidates_Unsorted(coll_html, base, j) ==
  LET out == Dedup(Scored(coll_html.anchors, base, j), {})
  IN  Upto(out, IF Len(out) < MaxCandidates THEN Len(out) ELSE MaxCandidates)

\* Faulty candidates, all of them however many
detail_candidates_Untruncated(coll_html, base, j) ==
  Dedup(SortByScore(Scored(coll_html.anchors, base, j)), {})

detail_candidates(coll_html, base, j) ==
  LET out == Dedup(SortByScore(Scored(coll_html.anchors, base, j)), {})
  IN  Upto(out, IF Len(out) < MaxCandidates THEN Len(out) ELSE MaxCandidates)

InitialBest == -999

\* the loop of find_pdf_on_page over the anchors, from (best, best_sc, best_text)
RECURSIVE BestPdf(_, _, _, _)
BestPdf(anchors, base, j, acc) ==
  IF anchors = <<>> THEN acc
  ELSE LET a == Head(anchors)
           sc == score_for(j, a.text, a.href)
           ok == EndsWith(lower(a.href), s_dot_pdf)
                   \/ Contains(lower(a.href), s_download) \/ sc >= 2
           nxt == IF ok /\ sc > acc.best_sc
                  THEN [best |-> urljoin(base, a.href), best_sc |-> sc, best_text |-> a.text]
                  ELSE acc
       IN  BestPdf(Tail(anchors), base, j, nxt)

\* A faulty search, which goes through the anchors from the last to the first
find_pdf_on_page_Last(detail_html, base, j) ==
  LET n == Len(detail_html.anchors)
      r == BestPdf([k \in 1..n |-> detail_html.anchors[n + 1 - k]], base, j,
                   [best |-> None, best_sc |-> InitialBest, best_text |-> <<>>])
  IN  <<r.best, r.best_text>>

find_pdf_on_page(detail_html, base, j) ==
  LET r == BestPdf(detail_html.anchors, base, j,
                   [best |-> None, best_sc |-> InitialBest, best_text |-> <<>>])
  IN  <<r.best, r.best_text>>

\* extract_issued: the page's date, else the Last-Modified header, else ""
extract_issued(detail_html, headers) ==
  IF detail_html.issued # <<>> THEN detail_html.issued ELSE headers.last_modified

(***************************************************************************)
(* slug                                                                    *)
(***************************************************************************)
IsSlugChar(c) == IsLower(c) \/ IsDigit(c)

\* re.sub(r"[^a-z0-9]+", "-", s): every maximal run of other characters becomes "-"
RECURSIVE SubRuns(_, _)
SubRuns(s, inRun) ==
  IF s = <<>> THEN <<>>
  ELSE IF IsSlugChar(Head(s)) THEN <<Head(s)>> \o SubRuns(Tail(s), FALSE)
  ELSE (IF inRun THEN <<>> ELSE <<"-">>) \o SubRuns(Tail(s), TRUE)

\* str.strip("-")
RECURSIVE LStrip(_)
LStrip(s) == IF s # <<>> /\ Head(s) = "-" THEN LStrip(Tail(s)) ELSE s
RECURSIVE RStrip(_)
RStrip(s) == IF s # <<>> /\ s[Len(s)] = "-" THEN RStrip(Upto(s, Len(s) - 1)) ELSE s

\* re.sub(r"-{2,}", "-", s)
RECURSIVE Squeeze(_)
Squeeze(s) ==
  IF Len(s) < 2 THEN s
  ELSE IF s[1] = "-" /\ s[2] = "-" THEN Squeeze(Tail(s))
  ELSE <<Head(s)>> \o Squeeze(Tail(s))

slug(s) == Squeeze(RStrip(LStrip(SubRuns(lower(s), FALSE))))

(***************************************************************************)
(* extract_numbers: re.findall of                                          *)
(*   (roof|wall|floor|window|roof ?light|rooflight|door)\D{0,12}           *)
(*   ([0-9]\.[0-9]{1,2})   with re.I, then sorted().                       *)
(* A pair of the result is a Python tuple; json turns it into a list.      *)
(***************************************************************************)
MaxGap == 12

\* the alternatives in the order the regular expression tries them
Keywords ==
  <<<<"r","o","o","f">>,
    <<"w","a","l","l">>,
    <<"f","l","o","o","r">>,
    <<"w","i","n","d","o","w">>,
    <<"r","o","o","f"," ","l","i","g","h","t">>,
    <<"r","o","o","f","l","i","g","h","t">>,
    <<"r","o","o","f","l","i","g","h","t">>,
    <<"d","o","o","r">>>>

\* length of the run of non-digits of t from position p
RECURSIVE GapLen(_, _)
GapLen(t, p) == IF p > Len(t) \/ IsDigit(t[p]) THEN 0 ELSE 1 + GapLen(t, p + 1)

\* [0-9]\.[0-9]{1,2} at position p: the position after it, 0 when no match
NumberEnd(t, p) ==
  IF p + 2 <= Len(t) /\ IsDigit(t[p]) /\ t[p + 1] = "." /\ IsDigit(t[p + 2])
  THEN IF p + 3 <= Len(t) /\ IsDigit(t[p + 3]) THEN p + 4 ELSE p + 3
  ELSE 0

\* alternative k at position i of t (lt is t lowered, for re.I): [g1, g2, end],
\* with end = 0 when it does not match.  \D{0,12} must take the whole run of
\* non-digits, since the number starts with a digit.
AltMatch(t, lt, i, k) ==
  LET w == Keywords[k]
      gap == GapLen(t, i + Len(w))
      e == NumberEnd(t, i + Len(w) + gap)
  IN  IF OccursAt(lt, w, i) /\ gap <= MaxGap /\ e # 0
      THEN [g1 |-> SubSeq(t, i, i + Len(w) - 1),
            g2 |-> SubSeq(t, i + Len(w) + gap, e - 1),
            end |-> e]
      ELSE [g1 |-> <<>>, g2 |-> <<>>, end |-> 0]

\* the first alternative from k on that matches at i
RECURSIVE MatchAt(_, _, _, _)
MatchAt(t, lt, i, k) ==
  IF k > Len(Keywords) THEN [g1 |-> <<>>, g2 |-> <<>>, end |-> 0]
  ELSE LET m == AltMatch(t, lt, i, k)
       IN  IF m.end # 0 THEN m ELSE MatchAt(t, lt, i, k + 1)

\* re.findall: the matches from left to right, each search starting where the
\* previous match ended
RECURSIVE FindAll(_, _, _)
FindAll(t, lt, i) ==
  IF i > Len(t) THEN <<>>
  ELSE LET m == MatchAt(t, lt, i, 1)
       IN  IF m.end = 0 THEN FindAll(t, lt, i + 1)
           ELSE <<[kind |-> "tuple", a |-> m.g1, b |-> m.g2]>> \o FindAll(t, lt, m.end)

PairLess(x, y) == StrLess(x.a, y.a) \/ (x.a = y.a /\ StrLess(x.b, y.b))

RECURSIVE InsertPair(_, _)
InsertPair(sorted, x) ==
  IF sorted = <<>> THEN <<x>>
  ELSE IF PairLess(x, Head(sorted)) THEN <<x>> \o sorted
  ELSE <<Head(sorted)>> \o InsertPair(Tail(sorted), x)

RECURSIVE SortPairs(_)
SortPairs(ps) ==
  IF ps = <<>> THEN <<>> ELSE InsertPair(SortPairs(Upto(ps, Len(ps) - 1)), ps[Len(ps)])

extract_numbers(text) == SortPairs(FindAll(text, lower(text), 1))

(***************************************************************************)
(* The version bump of the main loop                                       *)
(***************************************************************************)
\* entry.get("rule_version", "v1.0.0")[1:].split("."), int() of each part,
\* padded with zeros to three parts
RECURSIVE ParseAll(_)
ParseAll(parts) ==
  IF parts = <<>> THEN <<>> ELSE <<ParseInt(Head(parts))>> \o ParseAll(Tail(parts))

RECURSIVE Zeros(_)
Zeros(n) == IF n <= 0 THEN <<>> ELSE <<0>> \o Zeros(n - 1)

VersionParts == 3

ParseVersion(rule_version) ==
  LET v == ParseAll(Split(From(rule_version, 2), "."))
  IN  v \o Zeros(VersionParts - Len(v))

\* whether the parse raises ValueError
VersionParses(rule_version) ==
  \A i \in 1..Len(Split(From(rule_version, 2), ".")) :
    IsInt(Split(From(rule_version, 2), ".")[i])

\* f"v{v[0]}.{v[1]}.{v[2]}"
FormatVersion(v) ==
  <<"v">> \o IntToStr(v[1]) \o <<".">> \o IntToStr(v[2]) \o <<".">> \o IntToStr(v[3])

\* A faulty order of the tests: the numbers before the URL
ChangeKind_NumericFirst(major, numeric) ==
  IF numeric THEN "NUMERIC" ELSE IF major THEN "MAJOR" ELSE "MINOR"

\* the if/elif/else over the signals: the kind
ChangeKind(major, numeric) ==
  IF major THEN "MAJOR" ELSE IF numeric THEN "NUMERIC" ELSE "MINOR"

\* A faulty bump, whose NUMERIC case keeps the patch part
Bump_KeepPatch(v, major, numeric) ==
  IF major THEN <<v[1] + 1, 0, 0>>
  ELSE IF numeric THEN <<v[1], v[2] + 1, v[3]>>
  ELSE <<v[1], v[2], v[3] + 1>>

\* the bumped version list
Bump(v, major, numeric) ==
  IF major THEN <<v[1] + 1, 0, 0>>
  ELSE IF numeric THEN <<v[1], v[2] + 1, 0>>
  ELSE <<v[1], v[2], v[3] + 1>>

BumpVersion(rule_version, major, numeric) ==
  FormatVersion(Bump(ParseVersion(rule_version), major, numeric))

(***************************************************************************)
(* registry/current.json.  json.dump writes a tuple as a list; json.load   *)
(* reads lists.  Everything else of an entry is a str, None or a list of   *)
(* dicts, which json writes and reads back unchanged.                      *)
(***************************************************************************)
JsonNumbers(numbers) ==
  [i \in 1..Len(numbers) |-> [numbers[i] EXCEPT !.kind = "list"]]

JsonRecord(h) == [h EXCEPT !.numbers = JsonNumbers(h.numbers)]

JsonEntry(e) ==
  [e EXCEPT !.numbers = JsonNumbers(e.numbers),
            !.history = [i \in 1..Len(e.history) |-> JsonRecord(e.history[i])]]

\* the document json.dump(reg, ...) writes
ToJson(reg) == [i \in 1..Len(reg) |-> JsonEntry(reg[i])]

\* load_registry: the list of the file, [] when the file cannot be read
load_registry == IF disk.registry = None THEN <<>> ELSE disk.registry.doc

(***************************************************************************)
(* The upstream: what the sites may answer to the requests of a run.  Each *)
(* request may also fail (fetch returns None).  These upstreams are        *)
(* modelled:                                                               *)
(*   "sites"     several sites publish one document each (england's seed   *)
(*               page lists two PDFs, in either order);                    *)
(*   "versions"  ireland's site alone publishes, through a detail page, a  *)
(*               redirecting download link and a direct PDF link, and the  *)
(*               document changes between runs;                            *)
(*   "ranking"   wales's seed page is either a page with a detail link     *)
(*               that outscores a direct PDF link, or a page with fourteen *)
(*               detail links of two scores; a detail page has two PDF     *)
(*               links of equal score; scotland publishes one PDF;         *)
(*   "baseline"  as "ranking" with the first page only, and the PDF        *)
(*               behind wales's detail page changes between runs.          *)
(* A site that publishes nothing answers with a page without candidates.   *)
(***************************************************************************)
Upstreams == {"sites", "versions"}

Anchor(text, href) == [text |-> text, href |-> href]
Page(anchors, issued) == [anchors |-> anchors, issued |-> issued]

EnglandPages ==
  { Page(<<Anchor(t_vol1, h_doc1), Anchor(t_vol2, h_doc2)>>, <<>>),
    Page(<<Anchor(t_vol2, h_doc2), Anchor(t_vol1, h_doc1)>>, <<>>) }

PlainPages == { Page(<<Anchor(t_contact, h_contact)>>, <<>>) }

NorthernIrelandPages == { Page(<<Anchor(t_booklet_f1, h_f1)>>, <<>>) }

IrelandPages ==
  { Page(<<Anchor(t_tgd_dwellings, h_tgd_l), Anchor(t_guide, h_foreign),
           Anchor(t_tgd_non_domestic, h_nd)>>, <<>>) }

\* the href of the k-th detail link of the page with many: /p1, /p2, ...
DetailHref(k) == <<"/", "p">> \o IntToStr(k)

ManyLinks == 14

\* detail links, the even ones with two include tokens, the odd ones with one
RECURSIVE DetailLinks(_)
DetailLinks(n) ==
  IF n = 0 THEN <<>>
  ELSE Append(DetailLinks(n - 1),
              Anchor(IF n % 2 = 0 THEN t_part_l_fuel ELSE t_part_l, DetailHref(n)))

OutscoredPdfPage == Page(<<Anchor(t_adl, h_adl), Anchor(t_part_l_2022, h_part_l_pdf)>>, <<>>)

WalesPages == { OutscoredPdfPage, Page(DetailLinks(ManyLinks), <<>>) }

ScotlandPages == { Page(<<Anchor(t_section_6, h_s6)>>, <<>>) }

TwoPdfPages ==
  { Page(<<Anchor(t_contact, h_contact), Anchor(t_download, h_adl_a),
           Anchor(t_download, h_adl_b)>>, <<>>) }

\* the pages a successful GET of an HTML URL may return
Pages(url) ==
  CASE upstream = "sites" /\ url = s_coll_england -> EnglandPages
    [] upstream = "ranking" /\ url = s_coll_wales -> WalesPages
    [] upstream = "baseline" /\ url = s_coll_wales -> { OutscoredPdfPage }
    [] upstream \in {"ranking", "baseline"} /\ url = s_coll_scotland -> ScotlandPages
    [] url \in {u_adl, u_p4} -> TwoPdfPages
    [] upstream = "sites" /\ url = s_coll_northern_ireland -> NorthernIrelandPages
    [] upstream = "versions" /\ url = s_coll_ireland -> IrelandPages
    [] url = u_tgd_l -> { Page(<<Anchor(t_download, h_download)>>, d_2022) }
    [] url = u_foreign -> { Page(<<>>, <<>>) }
    [] OTHER -> PlainPages

\* PDF contents are numbered; the text pdfminer extracts from each
TextOf(content) ==
  CASE content = 0 -> <<>>
    [] content = 1 -> x_intro
    [] OTHER -> x_values

Response(url, content, last_modified) ==
  [url |-> url, content |-> content, headers |-> [last_modified |-> last_modified]]

\* the responses a successful GET of a PDF URL may return: the final URL after
\* redirects, the body, the headers
PdfResponses(url) ==
  CASE url = u_download -> { Response(u_assets, c, <<>>) : c \in {0, 1, 2} }
    [] url = u_nd -> { Response(u_nd, 2, <<>>) }
    [] upstream = "baseline" /\ url = u_adl_a -> { Response(u_adl_a, c, <<>>) : c \in {1, 2} }
    [] url = u_doc1 -> { Response(u_doc1, 0, lm) : lm \in {<<>>, d_2022} }
    [] OTHER -> { Response(url, 0, <<>>) }

\* pdf_text: the extracted text, or "" when extraction fails
pdf_text(pdf_bytes) == { TextOf(pdf_bytes), <<>> }

\* sha256(b).hexdigest(), taken to be free of collisions
sha256(b) == IntToStr(b)

(***************************************************************************)
(* The main loop                                                           *)
(***************************************************************************)
MaxRuns == 3
MaxDay == 2

\* the working variables of the loop body; page is rs.text, the seed page
NoLoc ==
  [page |-> <<>>, pdf_url |-> None, picked_track_id |-> <<>>, picked_track_title |-> "",
   link_text_for_name |-> <<>>, issued |-> <<>>]

NoFiles == [p \in {} |-> None]

\* open(path, "w").write(data)
Write(files, path, data) ==
  [p \in DOMAIN files \cup {path} |-> IF p = path THEN data ELSE files[p]]

\* what a run did with a site: not reached yet ("pending"), skipped, or resolved
\* to a document, with the stored entry the upsert found (before, <<>> for none)
NotSeen ==
  [state |-> "pending", slug |-> <<>>, link |-> <<>>, final |-> <<>>, url |-> <<>>,
   content |-> 0, txt |-> <<>>, issued |-> <<>>, kind |-> "", before |-> <<>>]

\* nothing on disk, the script not started
Fresh ==
  /\ pc = "idle"
  /\ run = 0
  /\ today = 0
  /\ registry = <<>>
  /\ changed = <<>>
  /\ si = 0
  /\ cands = <<>>
  /\ ci = 0
  /\ loc = NoLoc
  /\ disk = [registry |-> None, pdfs |-> NoFiles, texts |-> NoFiles,
             diffs |-> NoFiles, changelog |-> <<>>]
  /\ visited = [i \in 1..Len(SITES) |-> {}]
  /\ seen = [i \in 1..Len(SITES) |-> NotSeen]
  /\ prevSeen = <<>>
  /\ startDisk = None
  /\ probe = None

Init ==
  /\ rules = "code"
  /\ upstream \in Upstreams
  /\ Fresh

\* the script starts: today, load_registry(), changed = []
StartRun ==
  /\ pc \in {"idle", "done", "crashed"}
  /\ run < MaxRuns
  /\ run' = run + 1
  /\ today' \in {d \in {today, today + 1} : 1 <= d /\ d <= MaxDay}
  /\ registry' = load_registry
  /\ changed' = <<>>
  /\ si' = 1
  /\ pc' = "seed"
  /\ cands' = <<>>
  /\ ci' = 0
  /\ loc' = NoLoc
  /\ visited' = [i \in 1..Len(SITES) |-> {}]
  /\ seen' = [i \in 1..Len(SITES) |-> NotSeen]
  /\ prevSeen' = IF pc = "done" THEN seen ELSE <<>>
  /\ startDisk' = disk
  /\ UNCHANGED <<rules, upstream, disk, probe>>

\* `continue`, or the end of the loop body: the next site, or the save after the last
Continue ==
  /\ IF si < Len(SITES) THEN si' = si + 1 /\ pc' = "seed" ELSE si' = si /\ pc' = "save"
  /\ cands' = <<>>
  /\ ci' = 0
  /\ loc' = NoLoc

Skip == seen' = [seen EXCEPT ![si] = [NotSeen EXCEPT !.state = "skipped"]]

\* u.lower().endswith(".pdf")
DirectPdf(c) == EndsWith(lower(c.u), s_dot_pdf)

Picked(j, c, pdf, text, issued) ==
  [page |-> loc.page,
   pdf_url |-> pdf,
   picked_track_id |-> classify_track(j, c.t, c.u)[1],
   picked_track_title |-> classify_track(j, c.t, c.u)[2],
   link_text_for_name |-> text,
   issued |-> issued]

\* rs = fetch(coll) failed: "cannot load collection"
SeedFail ==
  /\ pc = "seed"
  /\ Skip
  /\ Continue
  /\ UNCHANGED <<rules, upstream, run, today, registry, changed, disk, visited, prevSeen, startDisk, probe>>

\* rs = fetch(coll) succeeded: the candidates; none at all is "no pdf found; skip"
SeedOk ==
  /\ pc = "seed"
  /\ \E page \in Pages(SITES[si].collection) :
       LET cs == detail_candidates(page, SITES[si].collection, SITES[si].jurisdiction)
       IN  IF cs = <<>>
           THEN Skip /\ Continue
           ELSE /\ cands' = cs
                /\ ci' = 1
                /\ loc' = [NoLoc EXCEPT !.page = page.anchors]
                /\ pc' = "cand"
                /\ UNCHANGED <<si, seen>>
  /\ UNCHANGED <<rules, upstream, run, today, registry, changed, disk, visited, prevSeen, startDisk, probe>>

\* the candidate is a direct PDF link: break
CandDirect ==
  /\ pc = "cand"
  /\ DirectPdf(cands[ci])
  /\ loc' = Picked(SITES[si].jurisdiction, cands[ci], cands[ci].u, cands[ci].t, loc.issued)
  /\ pc' = "pdf"
  /\ UNCHANGED <<rules, upstream, run, today, registry, changed, si, cands, ci, disk, visited, seen,
                 prevSeen, startDisk, probe>>

\* rr = fetch(u) of a detail page failed: continue with the next candidate
CandFetchFail ==
  /\ pc = "cand"
  /\ ~DirectPdf(cands[ci])
  /\ visited' = [visited EXCEPT ![si] = @ \cup {cands[ci].u}]
  /\ IF ci < Len(cands)
     THEN ci' = ci + 1 /\ UNCHANGED <<si, pc, cands, seen, loc>>
     ELSE Skip /\ Continue
  /\ UNCHANGED <<rules, upstream, run, today, registry, changed, disk, prevSeen, startDisk, probe>>

\* rr = fetch(u) of a detail page succeeded: find_pdf_on_page; break when it has a PDF
CandFetchOk ==
  /\ pc = "cand"
  /\ ~DirectPdf(cands[ci])
  /\ visited' = [visited EXCEPT ![si] = @ \cup {cands[ci].u}]
  /\ \E page \in Pages(cands[ci].u) :
       LET j == SITES[si].jurisdiction
           c == cands[ci]
           found == find_pdf_on_page(page, c.u, j)
           hdr == [last_modified |-> <<>>]
       IN  IF found[1] # None
           THEN /\ loc' = Picked(j, c, found[1],
                                 IF found[2] # <<>> THEN found[2] ELSE c.t,
                                 IF extract_issued(page, hdr) # <<>>
                                 THEN extract_issued(page, hdr) ELSE loc.issued)
                /\ pc' = "pdf"
                /\ UNCHANGED <<si, cands, ci, seen>>
           ELSE IF ci < Len(cands)
           THEN /\ ci' = ci + 1
                /\ loc' = Picked(j, c, None, loc.link_text_for_name, loc.issued)
                /\ UNCHANGED <<si, pc, cands, seen>>
           ELSE Skip /\ Continue
  /\ UNCHANGED <<rules, upstream, run, today, registry, changed, disk, prevSeen, startDisk, probe>>

\* A faulty skip, which marks every stored entry as seen today
PdfFail_Touching ==
  /\ pc = "pdf"
  /\ Skip
  /\ Continue
  /\ registry' = [k \in 1..Len(registry) |-> [registry[k] EXCEPT !.last_seen = today]]
  /\ UNCHANGED <<rules, upstream, run, today, changed, disk, visited, prevSeen, startDisk, probe>>

\* rp = fetch(pdf_url, stream=True) failed: continue
PdfFail ==
  /\ pc = "pdf"
  /\ Skip
  /\ Continue
  /\ UNCHANGED <<rules, upstream, run, today, registry, changed, disk, visited, prevSeen, startDisk, probe>>

\* A faulty resolution, which keeps the link found on the page as pdf_url
Resolved_Link(j, l, rp, txt) ==
  LET track == IF l.picked_track_id # <<>>
               THEN <<l.picked_track_id, l.picked_track_title>>
               ELSE classify_track(j, l.link_text_for_name, l.pdf_url)
  IN  [j |-> j,
       link |-> l.pdf_url,
       final |-> rp.url,
       pdf_url |-> l.pdf_url,
       pdf_bytes |-> rp.content,
       checksum |-> s_sha256_prefix \o sha256(rp.content),
       txt |-> txt,
       issued |-> IF l.issued # <<>> THEN l.issued ELSE rp.headers.last_modified,
       track_id |-> track[1],
       track_title |-> track[2],
       numbers |-> extract_numbers(txt),
       sl |-> slug(j \o <<"-">> \o track[1])]

\* what the loop body knows of the document after the PDF fetch and pdf_text:
\* link is the URL passed to fetch (line 388), final the URL of the response
Resolved(j, l, rp, txt) ==
  LET track == IF l.picked_track_id # <<>>
               THEN <<l.picked_track_id, l.picked_track_title>>
               ELSE classify_track(j, l.link_text_for_name, rp.url)
  IN  [j |-> j,
       link |-> l.pdf_url,
       final |-> rp.url,
       pdf_url |-> rp.url,
       pdf_bytes |-> rp.content,
       checksum |-> s_sha256_prefix \o sha256(rp.content),
       txt |-> txt,
       issued |-> IF l.issued # <<>> THEN l.issued ELSE rp.headers.last_modified,
       track_id |-> track[1],
       track_title |-> track[2],
       numbers |-> extract_numbers(txt),
       sl |-> slug(j \o <<"-">> \o track[1])]

ArchivePath(r, day) == <<"archive", r.j, r.sl, day>>
TextPath(sl) == <<"texts", sl>>
DiffPath(r, day) == <<"diffs", r.sl, day>>

\* A faulty lookup, which finds no entry
EntryIndex_Never(reg, sl) == 0

\* next((x for x in registry if x.get("slug") == sl), None), as an index, 0 for None
EntryIndex(reg, sl) ==
  IF \E i \in 1..Len(reg) : reg[i].slug = sl
  THEN CHOOSE i \in 1..Len(reg) : reg[i].slug = sl /\ \A k \in 1..(i - 1) : reg[k].slug # sl
  ELSE 0

\* A faulty history record, which names a diff file whatever it is given
HistoryRecord_WithDiff(r, day, diff) ==
  [date |-> day, source_url |-> r.pdf_url, checksum |-> r.checksum,
   numbers |-> r.numbers, issued |-> r.issued,
   archived_pdf |-> ArchivePath(r, day), diff |-> DiffPath(r, day)]

HistoryRecord(r, day, diff) ==
  [date |-> day, source_url |-> r.pdf_url, checksum |-> r.checksum,
   numbers |-> r.numbers, issued |-> r.issued,
   archived_pdf |-> ArchivePath(r, day), diff |-> diff]

NewEntry(r, day) ==
  [jurisdiction |-> r.j, track |-> r.track_id, track_title |-> r.track_title,
   slug |-> r.sl, source_url |-> r.pdf_url, checksum |-> r.checksum,
   numbers |-> r.numbers, issued |-> r.issued, first_seen |-> day,
   last_seen |-> day, rule_version |-> s_v1_0_0, history |-> <<>>]

\* the three signals
Major(entry, r) == entry.source_url # r.pdf_url
Minor(entry, r) == entry.checksum # r.checksum
Numeric(entry, r) == entry.numbers # r.numbers

\* difflib.unified_diff(prev, txt): nothing for equal texts, else the change
unified_diff(prev, txt) == IF prev = txt THEN <<>> ELSE <<prev, txt>>

\* the text of latest.txt, "" when the file does not exist
PrevText(dsk, sl) ==
  IF TextPath(sl) \in DOMAIN dsk.texts THEN dsk.texts[TextPath(sl)] ELSE <<>>

\* A faulty change branch, which leaves the stored checksum as it was
ChangedEntry_KeepChecksum(entry, r, day) ==
  [entry EXCEPT
     !.track = r.track_id, !.track_title = r.track_title,
     !.source_url = r.pdf_url, !.numbers = r.numbers,
     !.issued = r.issued, !.last_seen = day,
     !.rule_version = BumpVersion(entry.rule_version, Major(entry, r), Numeric(entry, r)),
     !.history = Append(entry.history, HistoryRecord(r, day, DiffPath(r, day)))]

\* A faulty change branch, which keeps only the new history record
ChangedEntry_Replacing(entry, r, day) ==
  [entry EXCEPT
     !.track = r.track_id, !.track_title = r.track_title,
     !.source_url = r.pdf_url, !.checksum = r.checksum, !.numbers = r.numbers,
     !.issued = r.issued, !.last_seen = day,
     !.rule_version = BumpVersion(entry.rule_version, Major(entry, r), Numeric(entry, r)),
     !.history = <<HistoryRecord(r, day, DiffPath(r, day))>>]

\* entry.update({...}) and the history append of a detected change
ChangedEntry(entry, r, day) ==
  [entry EXCEPT
     !.track = r.track_id, !.track_title = r.track_title,
     !.source_url = r.pdf_url, !.checksum = r.checksum, !.numbers = r.numbers,
     !.issued = r.issued, !.last_seen = day,
     !.rule_version = BumpVersion(entry.rule_version, Major(entry, r), Numeric(entry, r)),
     !.history = Append(entry.history, HistoryRecord(r, day, DiffPath(r, day)))]

\* A faulty no-change branch, which appends a history record
SeenEntry_Appending(entry, r, day) ==
  [entry EXCEPT
     !.last_seen = day,
     !.history = Append(@, [date |-> day, source_url |-> r.pdf_url,
                            checksum |-> r.checksum, numbers |-> r.numbers,
                            issued |-> r.issued, archived_pdf |-> ArchivePath(r, day),
                            diff |-> None])]

\* the no-change branch
SeenEntry(entry, r, day) ==
  [entry EXCEPT
     !.last_seen = day, !.track = r.track_id, !.track_title = r.track_title,
     !.issued = IF r.issued # <<>> /\ entry.issued = <<>> THEN r.issued ELSE entry.issued]

\* The upsert of the loop body for the resolved document r: the registry, the
\* files and the changed list after it, and the classification.
Upsert(reg, dsk, chg, r, day) ==
  LET i == EntryIndex(reg, r.sl)
  IN  IF i = 0
      THEN [registry |-> Append(reg, [NewEntry(r, day) EXCEPT
                                        !.history = <<HistoryRecord(r, day, None)>>]),
            disk |-> [dsk EXCEPT
                        !.pdfs = Write(@, ArchivePath(r, day), r.pdf_bytes),
                        !.texts = Write(@, TextPath(r.sl), r.txt)],
            changed |-> Append(chg, <<r.sl, "NEW">>),
            kind |-> "NEW"]
      ELSE IF Major(reg[i], r) \/ Minor(reg[i], r) \/ Numeric(reg[i], r)
      THEN [registry |-> [reg EXCEPT ![i] = ChangedEntry(reg[i], r, day)],
            disk |-> [dsk EXCEPT
                        !.diffs = Write(@, DiffPath(r, day),
                                        unified_diff(PrevText(dsk, r.sl), r.txt)),
                        !.pdfs = Write(@, ArchivePath(r, day), r.pdf_bytes),
                        !.texts = Write(@, TextPath(r.sl), r.txt)],
            changed |-> Append(chg, <<r.sl, ChangeKind(Major(reg[i], r), Numeric(reg[i], r))>>),
            kind |-> ChangeKind(Major(reg[i], r), Numeric(reg[i], r))]
      ELSE [registry |-> [reg EXCEPT ![i] = SeenEntry(reg[i], r, day)],
            disk |-> dsk,
            changed |-> chg,
            kind |-> "UNCHANGED"]

\* The upsert when the write of the archive PDF raises (the file cannot be
\* written): what is in memory and on disk when the script dies.
UpsertFailing(reg, dsk, r, day) ==
  LET i == EntryIndex(reg, r.sl)
  IN  IF i = 0
      THEN [registry |-> Append(reg, NewEntry(r, day)), disk |-> dsk]
      ELSE [registry |-> reg,
            disk |-> [dsk EXCEPT
                        !.diffs = Write(@, DiffPath(r, day),
                                        unified_diff(PrevText(dsk, r.sl), r.txt))]]

\* whether the upsert writes an archive PDF at all
WritesArchive(reg, r) ==
  LET i == EntryIndex(reg, r.sl)
  IN  IF i = 0 THEN TRUE
      ELSE Major(reg[i], r) \/ Minor(reg[i], r) \/ Numeric(reg[i], r)

Observed(r, kind, reg) ==
  [state |-> "resolved", slug |-> r.sl, link |-> r.link, final |-> r.final,
   url |-> r.pdf_url, content |-> r.pdf_bytes,
   txt |-> r.txt, issued |-> r.issued, kind |-> kind,
   before |-> IF EntryIndex(reg, r.sl) = 0 THEN <<>> ELSE <<reg[EntryIndex(reg, r.sl)]>>]

\* rp = fetch(pdf_url, stream=True) succeeded: the rest of the loop body
PdfOk ==
  /\ pc = "pdf"
  /\ \E rp \in PdfResponses(loc.pdf_url) : \E txt \in pdf_text(rp.content) :
       LET r == Resolved(SITES[si].jurisdiction, loc, rp, txt)
           u == Upsert(registry, disk, changed, r, today)
       IN  /\ registry' = u.registry
           /\ disk' = u.disk
           /\ changed' = u.changed
           /\ seen' = [seen EXCEPT ![si] = Observed(r, u.kind, registry)]
  /\ Continue
  /\ UNCHANGED <<rules, upstream, run, today, visited, prevSeen, startDisk, probe>>

\* the same with an archive file that cannot be written: the exception is not
\* caught, the script ends without save_registry
PdfOkWriteFails ==
  /\ pc = "pdf"
  /\ \E rp \in PdfResponses(loc.pdf_url) : \E txt \in pdf_text(rp.content) :
       LET r == Resolved(SITES[si].jurisdiction, loc, rp, txt)
           u == UpsertFailing(registry, disk, r, today)
       IN  /\ WritesArchive(registry, r) = TRUE
           /\ registry' = u.registry
           /\ disk' = u.disk
           /\ seen' = [seen EXCEPT ![si] = Observed(r, "ERROR", registry)]
  /\ pc' = "crashed"
  /\ UNCHANGED <<rules, upstream, run, today, changed, si, cands, ci, loc, visited, prevSeen,
                 startDisk, probe>>

\* save_registry(registry) and the CHANGELOG.md lines
Save ==
  /\ pc = "save"
  /\ disk' = [disk EXCEPT !.registry = [doc |-> ToJson(registry)],
                          !.changelog = @ \o [i \in 1..Len(changed) |->
                                                <<today, changed[i][1], changed[i][2]>>]]
  /\ pc' = "done"
  /\ UNCHANGED <<rules, upstream, run, today, registry, changed, si, cands, ci, loc, visited, seen,
                 prevSeen, startDisk, probe>>

Next ==
  \/ StartRun
  \/ SeedFail
  \/ SeedOk
  \/ CandDirect
  \/ CandFetchFail
  \/ CandFetchOk
  \/ PdfFail
  \/ PdfOk
  \/ PdfOkWriteFails
  \/ Save

Spec == Init /\ [][Next]_vars

(***************************************************************************)
(* fetch(url, base, retries, stream), one request at a time.  probe holds  *)
(* the frame of the call: the URL after the urljoin, the loop index i (the *)
(* number of requests made), the status of each request (0: requests.get   *)
(* raised, no response), the sleeps in tenths of a second, and what the    *)
(* call returned once it has.                                              *)
(***************************************************************************)
retries == 3
Statuses == {0, 200, 404, 503}
FetchArgs ==
  { <<u_tgd_l, None>>, <<h_tgd_l, s_coll_ireland>>, <<u_foreign, s_coll_ireland>> }

\* r.raise_for_status(), and requests.get itself raising
Raises(status) == status = 0 \/ status >= 400

\* A faulty sleep, of the same length after every request
Backoff_Constant(i) == 15

\* time.sleep(1.5 * (i + 1)), in tenths of a second
Backoff(i) == 15 * (i + 1)

\* range(retries)
InRange(i, n) == i < n

FetchFrame(url, base, n) ==
  [op |-> "fetch",
   url |-> IF base # None /\ ~IsAbsolute(url) THEN urljoin(base, url) ELSE url,
   retries |-> n, i |-> 0, statuses |-> <<>>, slept |-> <<>>,
   ret |-> IF InRange(0, n) THEN "running" ELSE "none"]

InitFetch ==
  /\ rules = "code"
  /\ upstream = "versions"
  /\ Fresh

\* a call of fetch
FetchCall ==
  /\ IF probe = None THEN TRUE ELSE probe.ret # "running"
  /\ \E a \in FetchArgs : \E n \in 0..retries : probe' = FetchFrame(a[1], a[2], n)
  /\ UNCHANGED <<rules, upstream, pc, run, today, registry, changed, si, cands, ci, loc, disk,
                 visited, seen, prevSeen, startDisk>>

\* one pass of the for loop: the request, then return r, or the sleep and the
\* next i, with the fall out of the loop after the last
FetchAttempt ==
  /\ probe # None
  /\ probe.ret = "running"
  /\ \E status \in Statuses :
       probe' = IF Raises(status)
                THEN [probe EXCEPT !.statuses = Append(@, status),
                                   !.slept = Append(@, Backoff(probe.i)),
                                   !.i = probe.i + 1,
                                   !.ret = IF InRange(probe.i + 1, probe.retries)
                                           THEN "running" ELSE "none"]
                ELSE [probe EXCEPT !.statuses = Append(@, status),
                                   !.ret = "response"]
  /\ UNCHANGED <<rules, upstream, pc, run, today, registry, changed, si, cands, ci, loc, disk,
                 visited, seen, prevSeen, startDisk>>

NextFetch ==
  \/ FetchCall
  \/ FetchAttempt

SpecFetch == InitFetch /\ [][NextFetch]_vars

(***************************************************************************)
(* The version bump of a detected change, applied to stored versions       *)
(* vA.B.C.  probe holds the entry's rule_version, the parts it started     *)
(* from and the kinds of the changes applied since.                        *)
(***************************************************************************)
MaxPart == 9
MaxBumps == 3

InitVersion ==
  /\ rules = "code"
  /\ upstream = "versions"
  /\ Fresh

\* an entry of the registry with some stored version
VersionLoad ==
  /\ probe = None
  /\ \E a \in 1..MaxPart : \E b \in 0..MaxPart : \E c \in 0..MaxPart :
       probe' = [op |-> "version", start |-> <<a, b, c>>,
                 rule_version |-> FormatVersion(<<a, b, c>>), applied |-> <<>>]
  /\ UNCHANGED <<rules, upstream, pc, run, today, registry, changed, si, cands, ci, loc, disk,
                 visited, seen, prevSeen, startDisk>>

\* a run that detects a change of the entry: some of the signals are set
VersionBump ==
  /\ probe # None
  /\ Len(probe.applied) < MaxBumps
  /\ \E major \in BOOLEAN : \E minor \in BOOLEAN : \E numeric \in BOOLEAN :
       /\ major \/ minor \/ numeric
       /\ probe' = [probe EXCEPT
                      !.rule_version = BumpVersion(probe.rule_version, major, numeric),
                      !.applied = Append(@, ChangeKind(major, numeric))]
  /\ UNCHANGED <<rules, upstream, pc, run, today, registry, changed, si, cands, ci, loc, disk,
                 visited, seen, prevSeen, startDisk>>

NextVersion ==
  \/ VersionLoad
  \/ VersionBump

SpecVersion == InitVersion /\ [][NextVersion]_vars

(***************************************************************************)
(* The monitor with the heuristics of a rule whose include tokens are      *)
(* "approved document l", "volume 1" and whose exclude token is "volume 2" *)
(***************************************************************************)
InitRule ==
  /\ rules = "scenario"
  /\ upstream \in Upstreams
  /\ Fresh

SpecRule == InitRule /\ [][Next]_vars

(***************************************************************************)
(* The monitor against the "ranking" and against the "baseline" upstream   *)
(***************************************************************************)
InitRanking ==
  /\ rules = "code"
  /\ upstream = "ranking"
  /\ Fresh

SpecRanking == InitRanking /\ [][Next]_vars

InitBaseline ==
  /\ rules = "code"
  /\ upstream = "baseline"
  /\ Fresh

SpecBaseline == InitBaseline /\ [][Next]_vars

(***************************************************************************)
(* Properties                                                              *)
(***************************************************************************)
Sites == 1..Len(SITES)

\* the site's loop body ran to its end on a resolved document
Completed(i) == seen[i].state = "resolved" /\ seen[i].kind # "ERROR"

\* the indices of the entries of a registry with a slug
EntriesOf(reg, sl) == { k \in 1..Len(reg) : reg[k].slug = sl }

\* the classification the run reported for a site: its line in changed, and
\* UNCHANGED without one
Classified(i) ==
  IF \E k \in 1..Len(changed) : changed[k][1] = seen[i].slug
  THEN changed[CHOOSE k \in 1..Len(changed) : changed[k][1] = seen[i].slug][2]
  ELSE "UNCHANGED"

\* the stored entry the site's document was compared with, and the entry after
Before(i) == seen[i].before[1]
After(i) == registry[CHOOSE k \in EntriesOf(registry, seen[i].slug) : TRUE]

urlChanged(i) == Before(i).source_url # seen[i].url
fingerprintChanged(i) == Before(i).checksum # s_sha256_prefix \o sha256(seen[i].content)
numbersChanged(i) == Before(i).numbers # extract_numbers(seen[i].txt)

\* C1: a site whose slug had no entry in the registry and whose document the
\* run resolved and processed is classified NEW, and the registry then has
\* exactly one entry of that slug, with a history of length 1 whose record
\* has a null diff.
C1_NewEntry ==
  \A i \in Sites :
    (Completed(i) /\ seen[i].before = <<>>) =>
      /\ Classified(i) = "NEW"
      /\ Cardinality(EntriesOf(registry, seen[i].slug)) = 1
      /\ Len(After(i).history) = 1
      /\ After(i).history[1].diff = None

C1_Witness ==
  /\ pc = "done"
  /\ \E i \in Sites :
       /\ Completed(i)
       /\ seen[i].before = <<>>
       /\ Classified(i) = "NEW"
       /\ Len(registry) >= 2

Document(s) ==
  [state |-> s.state, slug |-> s.slug, url |-> s.url, content |-> s.content,
   txt |-> s.txt, issued |-> s.issued]

EqualButLastSeen(a, b) ==
  /\ Len(a) = Len(b)
  /\ \A k \in 1..Len(a) : [a[k] EXCEPT !.last_seen = 0] = [b[k] EXCEPT !.last_seen = 0]

\* C3: when a run that saved the registry is followed by a run that
\* resolves the same documents for every site (same final URL, bytes, text
\* and issue date), the second run reports no change and saves a registry
\* equal to the first run's except for last_seen.
C3_Idempotent ==
  (/\ pc = "done"
   /\ prevSeen # <<>>
   /\ \A i \in Sites : Document(seen[i]) = Document(prevSeen[i])) =>
    /\ changed = <<>>
    /\ EqualButLastSeen(disk.registry.doc, startDisk.registry.doc)

VersionText(a, b, c) ==
  <<"v">> \o IntToStr(a) \o <<".">> \o IntToStr(b) \o <<".">> \o IntToStr(c)

\* the parts after changes of the given kinds, by the rule of the bump
RECURSIVE PartsAfter(_, _)
PartsAfter(v, kinds) ==
  IF kinds = <<>> THEN v
  ELSE PartsAfter(CASE Head(kinds) = "MAJOR" -> <<v[1] + 1, 0, 0>>
                    [] Head(kinds) = "NUMERIC" -> <<v[1], v[2] + 1, 0>>
                    [] OTHER -> <<v[1], v[2], v[3] + 1>>,
                  Tail(kinds))

\* C5: from a stored version vA.B.C a MAJOR change stores v(A+1).0.0, a
\* NUMERIC change vA.(B+1).0 and a MINOR change vA.B.(C+1); NUMERIC changes
\* from v1.0.0 store v1.1.0, v1.2.0, v1.3.0, and v2.3.4 under MAJOR stores
\* v3.0.0.
C5_VersionBump ==
  probe # None =>
    LET after == PartsAfter(probe.start, probe.applied)
    IN  /\ probe.rule_version = VersionText(after[1], after[2], after[3])
        /\ (probe.start = <<1, 0, 0>> /\ probe.applied = <<"NUMERIC">>)
             => probe.rule_version = <<"v","1",".","1",".","0">>
        /\ (probe.start = <<1, 0, 0>> /\ probe.applied = <<"NUMERIC", "NUMERIC">>)
             => probe.rule_version = <<"v","1",".","2",".","0">>
        /\ (probe.start = <<1, 0, 0>> /\ probe.applied = <<"NUMERIC", "NUMERIC", "NUMERIC">>)
             => probe.rule_version = <<"v","1",".","3",".","0">>
        /\ (probe.start = <<2, 3, 4>> /\ probe.applied = <<"MAJOR">>)
             => probe.rule_version = <<"v","3",".","0",".","0">>

C5_Witness ==
  /\ probe # None
  /\ probe.start = <<1, 0, 0>>
  /\ probe.applied = <<"NUMERIC", "NUMERIC", "NUMERIC">>
  /\ probe.rule_version = <<"v","1",".","3",".","0">>

\* an anchor text or link that has an exclude token of the jurisdiction
Excluded(j, text, link) ==
  \E k \in 1..Len(TableGet(EXCLUDE, j)) :
    \/ Contains(lower(text), TableGet(EXCLUDE, j)[k])
    \/ Contains(lower(link), TableGet(EXCLUDE, j)[k])

\* C6: no detail candidate of a site, and no link chosen as its PDF, has
\* an exclude token of the site's jurisdiction in its text or link.
C6_ExclusionsAbsolute ==
  pc \in {"cand", "pdf"} =>
    /\ \A k \in 1..Len(cands) :
         ~Excluded(SITES[si].jurisdiction, cands[k].t, cands[k].u)
    /\ loc.pdf_url # None =>
         ~Excluded(SITES[si].jurisdiction, loc.link_text_for_name, loc.pdf_url)

\* the seed page of the scenario, in the two orders of its links
TwoLinks ==
  { <<Anchor(t_vol1, h_doc1), Anchor(t_vol2, h_doc2)>>,
    <<Anchor(t_vol2, h_doc2), Anchor(t_vol1, h_doc1)>> }

\* C7: with the include tokens "approved document l", "volume 1" and the
\* exclude token "volume 2", a seed page with the links "Approved Document L
\* Volume 1" -> doc1.pdf and "Approved Document L Volume 2" -> doc2.pdf, in
\* either order, resolves to doc1.pdf.
C7_Scenario ==
  (loc.page \in TwoLinks /\ SITES[si].jurisdiction = s_england) =>
    /\ pc \in {"cand", "pdf", "crashed"}
    /\ cands[1].u = u_doc1
    /\ ci = 1
    /\ DirectPdf(cands[1])
    /\ pc # "cand" => loc.pdf_url = u_doc1

C7_Witness ==
  /\ rules = "scenario"
  /\ pc = "pdf"
  /\ loc.page = <<Anchor(t_vol2, h_doc2), Anchor(t_vol1, h_doc1)>>
  /\ loc.pdf_url = u_doc1

\* C8: every detail page fetched for a site is on the domain of the
\* site's seed URL.
C8_SameDomain ==
  \A i \in Sites : \A u \in visited[i] : Domain(u) = Domain(SITES[i].collection)

Succeeds(status) == status \in 200..299

C10_NoBlocking ==
  pc \in {"done", "crashed"} =>
    /\ \A i \in Sites : seen[i].state # "pending"
    /\ disk.registry # None
    /\ \A i \in Sites :
         Completed(i) =>
           \E k \in 1..Len(disk.registry.doc) : disk.registry.doc[k] = JsonEntry(After(i))

\* every slug of a registry names one entry, and is slug(f"{jurisdiction}-{track}")
SlugsOf(reg) ==
  \A k \in 1..Len(reg) :
    /\ Cardinality(EntriesOf(reg, reg[k].slug)) = 1
    /\ reg[k].slug = slug(reg[k].jurisdiction \o <<"-">> \o reg[k].track)

\* the entries of a registry keep their slugs in the next state's registry
SlugsKept(reg, next) ==
  \A k \in 1..Len(reg) : k <= Len(next) /\ next[k].slug = reg[k].slug

\* C11: in every state reached from an empty registry, the registry in
\* memory and the saved one hold at most one entry per slug, each slug is the
\* slug of the entry's jurisdiction and track, and no step of a run, and no
\* save, changes the slug of an entry.
C11_Slugs ==
  /\ [](SlugsOf(registry) /\ (disk.registry # None => SlugsOf(disk.registry.doc)))
  /\ [][/\ pc \in {"seed", "cand", "pdf", "save"} => SlugsKept(registry, registry')
        /\ disk.registry # None => SlugsKept(disk.registry.doc, disk'.registry.doc)]_vars

C11_Witness ==
  /\ pc = "done"
  /\ run >= 2
  /\ \E k \in 1..Len(disk.registry.doc) :
       /\ Len(disk.registry.doc[k].history) >= 2
       /\ disk.registry.doc[k].track # <<>>

(***************************************************************************)
(* The readers of the registry document.  A document is the JSON value of  *)
(* registry/current.json: a list of entries, or a dict {"items": [...]}.   *)
(* What a reader did with it is the exception that ended it ("" for none)  *)
(* and the entries it went through.                                        *)
(***************************************************************************)
JsonDocument(type, items) == [type |-> type, items |-> items]

\* iter(value): the elements of a list, the keys of a dict
PyIter(value) ==
  IF value.type = "list"
  THEN [k \in 1..Len(value.items) |-> [type |-> "dict", value |-> value.items[k]]]
  ELSE <<[type |-> "str", value |-> "items"]>>

\* check_partl.py: registry = load_registry(), then the lookup
\* next((x for x in registry if x.get("slug") == sl), None); a str has no get
monitor_reads(document, sl) ==
  LET xs == PyIter(document)
      hit == { k \in 1..Len(xs) : xs[k].type = "dict" /\ xs[k].value.slug = sl }
      bad == { k \in 1..Len(xs) : xs[k].type = "str" }
      before(k, ks) == \A m \in ks : k < m
  IN  IF \E k \in bad : before(k, hit)
      THEN [error |-> "AttributeError", entries |-> <<>>, found |-> 0]
      ELSE [error |-> "", entries |-> document.items,
            found |-> IF hit = {} THEN 0 ELSE CHOOSE k \in hit : before(k, hit \ {k})]

\* render_site.py: load_registry(p) and data.get("items", [])
renderer_reads(document) ==
  [error |-> "", entries |-> document.items, found |-> 0]

\* make_thumbs.py main: items = data.get("items") or data, then the loop over
\* the rows with pick_pdf(row); a list has no get, and neither has a str row
thumbs_reads(document) ==
  IF document.type = "list"
  THEN [error |-> "AttributeError", entries |-> <<>>, found |-> 0]
  ELSE IF document.items = <<>>
  THEN [error |-> "AttributeError", entries |-> <<>>, found |-> 0]
  ELSE [error |-> "", entries |-> document.items, found |-> 0]

\* documents to read: what save_registry writes after first runs that
\* resolved some of these documents, as a list and as a dict
SampleResolved ==
  << Resolved(s_england,
              [NoLoc EXCEPT !.pdf_url = u_doc1, !.link_text_for_name = t_vol1],
              Response(u_doc1, 0, <<>>), TextOf(0)),
     Resolved(s_ireland,
              [NoLoc EXCEPT !.pdf_url = u_nd, !.link_text_for_name = t_tgd_non_domestic],
              Response(u_nd, 2, <<>>), TextOf(2)),
     Resolved(s_northern_ireland,
              [NoLoc EXCEPT !.pdf_url = u_f1, !.link_text_for_name = t_booklet_f1],
              Response(u_f1, 0, <<>>), TextOf(0)) >>

RECURSIVE SavedAfter(_)
SavedAfter(rs) ==
  IF rs = <<>> THEN <<>>
  ELSE LET r == rs[Len(rs)]
       IN  Append(SavedAfter(Upto(rs, Len(rs) - 1)),
                  JsonEntry([NewEntry(r, 1) EXCEPT !.history = <<HistoryRecord(r, 1, None)>>]))

\* the subsequences of a sequence
RECURSIVE SubSeqs(_)
SubSeqs(rs) ==
  IF rs = <<>> THEN { <<>> }
  ELSE SubSeqs(Tail(rs)) \cup { <<Head(rs)>> \o t : t \in SubSeqs(Tail(rs)) }

SampleItems == { SavedAfter(rs) : rs \in SubSeqs(SampleResolved) }

SampleSlugs == { SampleResolved[k].sl : k \in 1..Len(SampleResolved) } \cup { s_general }

NotRead == [error |-> "", entries |-> <<>>, found |-> 0, ran |-> FALSE]
Read(result) ==
  [error |-> result.error, entries |-> result.entries, found |-> result.found, ran |-> TRUE]

InitReaders ==
  /\ rules = "code"
  /\ upstream = "sites"
  /\ Fresh

\* a registry document is put in place
ReadersDocument ==
  /\ probe = None
  /\ \E type \in {"list", "dict"} : \E items \in SampleItems :
       probe' = [op |-> "read", document |-> JsonDocument(type, items),
                 monitor |-> NotRead, renderer |-> NotRead, thumbs |-> NotRead]
  /\ UNCHANGED <<rules, upstream, pc, run, today, registry, changed, si, cands, ci, loc, disk,
                 visited, seen, prevSeen, startDisk>>

MonitorReads ==
  /\ probe # None
  /\ ~probe.monitor.ran
  /\ \E sl \in SampleSlugs :
       probe' = [probe EXCEPT !.monitor = Read(monitor_reads(probe.document, sl))]
  /\ UNCHANGED <<rules, upstream, pc, run, today, registry, changed, si, cands, ci, loc, disk,
                 visited, seen, prevSeen, startDisk>>

RendererReads ==
  /\ probe # None
  /\ ~probe.renderer.ran
  /\ probe' = [probe EXCEPT !.renderer = Read(renderer_reads(probe.document))]
  /\ UNCHANGED <<rules, upstream, pc, run, today, registry, changed, si, cands, ci, loc, disk,
                 visited, seen, prevSeen, startDisk>>

ThumbsReads ==
  /\ probe # None
  /\ ~probe.thumbs.ran
  /\ probe' = [probe EXCEPT !.thumbs = Read(thumbs_reads(probe.document))]
  /\ UNCHANGED <<rules, upstream, pc, run, today, registry, changed, si, cands, ci, loc, disk,
                 visited, seen, prevSeen, startDisk>>

NextReaders ==
  \/ ReadersDocument
  \/ MonitorReads
  \/ RendererReads
  \/ ThumbsReads

SpecReaders == InitReaders /\ [][NextReaders]_vars

\* C12: each reader, given the registry as a list or as {"items": [...]},
\* ends without an exception and goes through the entries of the document.
C12_BothShapes ==
  probe # None =>
    /\ probe.monitor.ran =>
         (probe.monitor.error = "" /\ probe.monitor.entries = probe.document.items)
    /\ probe.renderer.ran =>
         (probe.renderer.error = "" /\ probe.renderer.entries = probe.document.items)
    /\ probe.thumbs.ran =>
         (probe.thumbs.error = "" /\ probe.thumbs.entries = probe.document.items)

\* C13: while a site is processed whose seed page gave a candidate that is
\* a direct PDF link, no detail page has been fetched for the site.
C13_SeedPdfFirst ==
  (pc \in {"cand", "pdf", "crashed"} /\ \E k \in 1..Len(cands) : DirectPdf(cands[k])) =>
    visited[si] = {}

\* the score of a candidate of the site being processed: that of its anchor
\* on the seed page
ScoreOf(c) ==
  LET j == SITES[si].jurisdiction
      a == CHOOSE a \in { loc.page[k] : k \in 1..Len(loc.page) } :
             a.text = c.t /\ urljoin(SITES[si].collection, a.href) = c.u
  IN  score_for(j, a.text, a.href)

\* the detail pages among the first n candidates
DetailPagesUpTo(n) == { cands[k].u : k \in { m \in 1..n : ~DirectPdf(cands[m]) } }

\* C14: a site has at most 12 candidates, in descending order of score,
\* and the list stays as it is while the site is worked on;
\* the detail pages fetched are those of the candidates before the current
\* one, in that order; once a candidate has given a PDF no further page is
\* fetched; and when the candidates end without a PDF the site is skipped,
\* nothing is written, and the run goes on to the next site or to the save.
C14_Candidates ==
  /\ [](pc \in {"cand", "pdf"} =>
          /\ Len(cands) <= 12
          /\ ci = 1 => \A k \in 1..(Len(cands) - 1) :
                         ScoreOf(cands[k]) >= ScoreOf(cands[k + 1])
          /\ ci \in 1..Len(cands)
          /\ visited[si] = DetailPagesUpTo(IF pc = "cand" THEN ci - 1 ELSE ci))
  /\ [][/\ (pc \in {"cand", "pdf"} /\ pc' \in {"cand", "pdf"}) => cands' = cands
        /\ pc = "pdf" => visited' = visited
        /\ (pc = "cand" /\ pc' \notin {"cand", "pdf"}) =>
             /\ seen'[si].state = "skipped"
             /\ registry' = registry /\ disk' = disk
             /\ IF si < Len(SITES) THEN si' = si + 1 /\ pc' = "seed" ELSE pc' = "save"]_vars

C14_Witness ==
  /\ pc = "done"
  /\ \E i \in Sites : seen[i].state = "skipped" /\ Cardinality(visited[i]) = 12

\* the place of a candidate's anchor on the seed page (the first, if several)
PlaceOf(c) ==
  LET at == { k \in 1..Len(loc.page) :
                loc.page[k].text = c.t
                  /\ urljoin(SITES[si].collection, loc.page[k].href) = c.u }
  IN  CHOOSE k \in at : \A m \in at : k <= m

\* whether the anchor at place k of anchors is ranked before the one at place m
RankedBefore(anchors, j, k, m) ==
  LET sk == score_for(j, anchors[k].text, anchors[k].href)
      sm == score_for(j, anchors[m].text, anchors[m].href)
  IN  sk > sm \/ (sk = sm /\ k <= m)

\* the first of the best-scoring links of a detail page that may be its PDF
FirstBestPdf(page, base, j) ==
  LET may == { k \in 1..Len(page.anchors) :
                 \/ EndsWith(lower(page.anchors[k].href), s_dot_pdf)
                 \/ Contains(lower(page.anchors[k].href), s_download)
                 \/ score_for(j, page.anchors[k].text, page.anchors[k].href) >= 2 }
  IN  IF may = {} THEN None
      ELSE urljoin(base, page.anchors[CHOOSE k \in may :
                                        \A m \in may : RankedBefore(page.anchors, j, k, m)].href)

\* C16: the candidates a site starts with are in descending order of
\* score, those of equal score in the order of their anchors on the seed
\* page, and an anchor left out ranks after the last of them; the PDF taken
\* from a detail page is the first of its best-scoring PDF links.
C16_TieOrder ==
  /\ (pc = "cand" /\ ci = 1) =>
       /\ \A k \in 1..(Len(cands) - 1) :
            /\ PlaceOf(cands[k]) # PlaceOf(cands[k + 1])
            /\ RankedBefore(loc.page, SITES[si].jurisdiction,
                            PlaceOf(cands[k]), PlaceOf(cands[k + 1]))
       /\ \A n \in 1..Len(loc.page) :
            (/\ score_for(SITES[si].jurisdiction, loc.page[n].text, loc.page[n].href) > 0
             /\ \A k \in 1..Len(cands) : PlaceOf(cands[k]) # n) =>
              RankedBefore(loc.page, SITES[si].jurisdiction, PlaceOf(cands[Len(cands)]), n)
  /\ (pc = "pdf" /\ ~DirectPdf(cands[ci])) =>
       \E page \in Pages(cands[ci].u) :
         loc.pdf_url = FirstBestPdf(page, cands[ci].u, SITES[si].jurisdiction)

C16_Witness ==
  /\ pc = "pdf"
  /\ Len(cands) = 12
  /\ ~DirectPdf(cands[ci])
  /\ loc.pdf_url = u_adl_a
  /\ \E page \in Pages(cands[ci].u) :
       \E k \in 1..Len(page.anchors) : page.anchors[k].href = h_adl_b

\* C15: the source_url of the entry of a processed document, the source_url
\* of the history record the run appended for it, and the URL whose
\* difference from the stored source_url makes the change MAJOR are the
\* final URL of the response to the PDF fetch, not the link that was fetched.
C15_FinalUrl ==
  \A i \in Sites :
    Completed(i) =>
      /\ After(i).source_url = seen[i].final
      /\ Classified(i) # "UNCHANGED" =>
           After(i).history[Len(After(i).history)].source_url = seen[i].final
      /\ seen[i].before # <<>> =>
           (Classified(i) = "MAJOR" <=> Before(i).source_url # seen[i].final)

C15_Witness ==
  /\ pc = "done"
  /\ \E i \in Sites :
       /\ Completed(i)
       /\ seen[i].link # seen[i].final
       /\ seen[i].before # <<>>
       /\ Before(i).source_url = seen[i].final
       /\ Classified(i) \in {"NUMERIC", "MINOR"}
       /\ After(i).history[Len(After(i).history)].source_url = seen[i].final

\* the PDF contents whose fingerprint a history record stores
VersionsOf(record) == { c \in {0, 1, 2} : record.checksum = s_sha256_prefix \o sha256(c) }

\* C17: after every run, for every entry of the saved registry, the latest
\* text stored for its slug is a text extracted from the document version
\* whose fingerprint the entry's last history record stores.
C17_Baseline ==
  (pc \in {"done", "crashed"} /\ disk.registry # None) =>
    \A k \in 1..Len(disk.registry.doc) :
      LET entry == disk.registry.doc[k]
      IN  /\ TextPath(entry.slug) \in DOMAIN disk.texts
          /\ \E c \in VersionsOf(entry.history[Len(entry.history)]) :
               disk.texts[TextPath(entry.slug)] \in pdf_text(c)

\* C18: a document whose text extraction returned nothing and whose URL and
\* bytes are those of the stored entry is classified UNCHANGED, with the
\* stored version and history.
C18_ExtractionFailure ==
  \A i \in Sites :
    (/\ Completed(i)
     /\ seen[i].before # <<>>
     /\ seen[i].txt = <<>>
     /\ ~urlChanged(i) /\ ~fingerprintChanged(i)) =>
      /\ Classified(i) = "UNCHANGED"
      /\ After(i).rule_version = Before(i).rule_version
      /\ After(i).history = Before(i).history

\* every entry of reg is in next at its place, with its first_seen and with
\* its history as a prefix of the history there
HistoryKept(reg, next) ==
  \A k \in 1..Len(reg) :
    /\ k <= Len(next)
    /\ next[k].slug = reg[k].slug
    /\ next[k].first_seen = reg[k].first_seen
    /\ Len(next[k].history) >= Len(reg[k].history)
    /\ SubSeq(next[k].history, 1, Len(reg[k].history)) = reg[k].history

\* C19: no step of a run and no save removes, reorders or alters a history
\* record or changes first_seen; a run starts from the saved registry; a
\* processed document classified NEW has a history of one record, one
\* classified MAJOR, NUMERIC or MINOR the stored history and one record after
\* it, and an unchanged one the stored history.
C19_AppendOnly ==
  /\ [](\A i \in Sites :
          Completed(i) =>
            IF seen[i].before = <<>>
            THEN Classified(i) = "NEW" /\ Len(After(i).history) = 1
            ELSE /\ After(i).first_seen = Before(i).first_seen
                 /\ Classified(i) \in {"MAJOR", "NUMERIC", "MINOR", "UNCHANGED"}
                 /\ IF Classified(i) = "UNCHANGED"
                    THEN After(i).history = Before(i).history
                    ELSE /\ Len(After(i).history) = Len(Before(i).history) + 1
                         /\ SubSeq(After(i).history, 1, Len(Before(i).history))
                              = Before(i).history)
  /\ [][/\ pc \in {"seed", "cand", "pdf", "save"} => HistoryKept(registry, registry')
        /\ (pc \in {"idle", "done", "crashed"} /\ disk.registry # None) =>
             registry' = disk.registry.doc
        /\ disk.registry # None => HistoryKept(disk.registry.doc, disk'.registry.doc)]_vars

C19_Witness ==
  /\ pc = "done"
  /\ run = 3
  /\ \E i \in Sites :
       /\ Completed(i)
       /\ seen[i].before # <<>>
       /\ Len(Before(i).history) = 2
       /\ Classified(i) \in {"MAJOR", "NUMERIC", "MINOR"}
       /\ Len(disk.registry.doc[CHOOSE k \in EntriesOf(registry, seen[i].slug) : TRUE].history) = 3

\* C20: after a run that saved the registry, the archived PDF every history
\* record of every saved entry points to exists and holds the bytes whose
\* fingerprint the record stores.
C20_Snapshots ==
  (pc = "done" /\ disk.registry # None) =>
    \A k \in 1..Len(disk.registry.doc) :
      \A n \in 1..Len(disk.registry.doc[k].history) :
        LET record == disk.registry.doc[k].history[n]
        IN  /\ record.archived_pdf \in DOMAIN disk.pdfs
            /\ s_sha256_prefix \o sha256(disk.pdfs[record.archived_pdf]) = record.checksum

\* every entry of reg has a history, and its source_url, checksum and numbers
\* are those of its last history record
CurrentIsLast(reg) ==
  \A k \in 1..Len(reg) :
    /\ Len(reg[k].history) >= 1
    /\ LET last == reg[k].history[Len(reg[k].history)]
       IN  /\ reg[k].source_url = last.source_url
           /\ reg[k].checksum = last.checksum
           /\ reg[k].numbers = last.numbers

FilesKept(before, after, sl, n) ==
  \A p \in DOMAIN after : p[n] = sl => (p \in DOMAIN before /\ after[p] = before[p])

\* the site was skipped in this run, the run before resolved it to a
\* document, and no other site of this run resolved to the slug of that one
SkippedNow(i) ==
  /\ seen[i].state = "skipped"
  /\ prevSeen[i].state = "resolved"
  /\ \A j \in Sites : seen[j].state = "resolved" => seen[j].slug # prevSeen[i].slug

\* C22: the steps of a site's iteration up to the PDF fetch, and the step
\* that skips the site (seed fetch failed, no candidate gave a PDF, PDF
\* fetch failed), change neither the registry nor a file nor the list of
\* changes; and at the end of a run the entry and the files of a site that
\* was skipped are those the run started with.
C22_SkippedSite ==
  /\ [][/\ pc \in {"seed", "cand"} =>
             (registry' = registry /\ disk' = disk /\ changed' = changed)
        /\ (pc \in {"seed", "cand", "pdf"} /\ seen'[si].state = "skipped") =>
             (registry' = registry /\ disk' = disk /\ changed' = changed)]_vars
  /\ []((pc \in {"save", "done"} /\ prevSeen # <<>>) =>
          \A i \in Sites :
            SkippedNow(i) =>
              LET sl == prevSeen[i].slug
              IN  /\ \A k \in EntriesOf(startDisk.registry.doc, sl) :
                       /\ registry[k] = startDisk.registry.doc[k]
                       /\ pc = "done" => disk.registry.doc[k] = startDisk.registry.doc[k]
                  /\ EntriesOf(registry, sl) = EntriesOf(startDisk.registry.doc, sl)
                  /\ FilesKept(startDisk.pdfs, disk.pdfs, sl, 3)
                  /\ FilesKept(startDisk.diffs, disk.diffs, sl, 2)
                  /\ FilesKept(startDisk.texts, disk.texts, sl, 2))

C22_Witness ==
  /\ pc = "done"
  /\ prevSeen # <<>>
  /\ \E i \in Sites :
       /\ SkippedNow(i)
       /\ \E k \in EntriesOf(disk.registry.doc, prevSeen[i].slug) :
            disk.registry.doc[k].last_seen < today
  /\ \E j \in Sites : Completed(j) /\ Classified(j) # "UNCHANGED"
=============================================================================
